---- MODULE Spec2Model ----
(***************************************************************************)
(* Hyprland Window Switcher (albert plugin), src/__init__.py.              *)
(*                                                                         *)
(* Text is modelled as sequences of one-character strings, so that         *)
(* str.strip, str.startswith, str.split and the descriptor-file scan are   *)
(* computed character by character as the Python code computes them.      *)
(***************************************************************************)
EXTENDS Integers, Sequences, FiniteSets, TLC

(***************************************************************************)
(* Bounds of the model.                                                    *)
(***************************************************************************)
MaxLines == 5
MaxWindows == 2
MaxRank == 1

(***************************************************************************)
(* Text literals.                                                          *)
(***************************************************************************)
S_empty == << >>
S_albert == <<"a", "l", "b", "e", "r", "t">>
S_Albert == <<"A", "l", "b", "e", "r", "t">>
S_DesktopEntry == <<"D", "e", "s", "k", "t", "o", "p", " ", "E", "n", "t", "r", "y">>
S_NamePrefix == <<"N", "a", "m", "e", "=">>
S_IconPrefix == <<"I", "c", "o", "n", "=">>
S_myappWeird == <<"m", "y", "a", "p", "p", ".", "W", "e", "i", "r", "d">>
S_Weird == <<"W", "e", "i", "r", "d">>
S_MyApp == <<"M", "y", " ", "A", "p", "p">>
S_myicon == <<"m", "y", "-", "i", "c", "o", "n">>
S_Firefox == <<"F", "i", "r", "e", "f", "o", "x">>
S_Docs == <<"D", "o", "c", "s">>
S_Nav == <<"N", "a", "v">>
S_oNav == <<"o", ".", "N", "a", "v">>
S_foot == <<"f", "o", "o", "t">>
S_fire == <<"f", "i", "r", "e">>
S_Fire == <<"F", "i", "r", "e">>
S_kitty == <<"k", "i", "t", "t", "y">>
S_sh == <<"s", "h">>
S_Start == <<"S", "t", "a", "r", "t">>
S_FRX == <<"F", "R", "X">>

\* Lines as fp.readline() returns them, with their line terminator.
L_DesktopEntry == <<"[", "D", "e", "s", "k", "t", "o", "p", " ", "E", "n", "t", "r", "y", "]", "\n">>
L_Other == <<"[", "O", "t", "h", "e", "r", "]", "\n">>
L_NameMyApp == <<"N", "a", "m", "e", "=", "M", "y", " ", "A", "p", "p", "\n">>
L_IconMyIcon == <<"I", "c", "o", "n", "=", "m", "y", "-", "i", "c", "o", "n", "\n">>
L_NameIgnored == <<"N", "a", "m", "e", "=", "I", "g", "n", "o", "r", "e", "d", "\n">>
L_NameEmpty == <<"N", "a", "m", "e", "=", "\n">>
L_NameFire == <<"N", "a", "m", "e", "=", "F", "i", "r", "e", "\n">>
L_IconNav == <<"I", "c", "o", "n", "=", "n", "a", "v", "\n">>

(***************************************************************************)
(* Python str operations used by the plugin.                               *)
(***************************************************************************)
Whitespace == {" ", "\t", "\n", "\r"}

\* s.startswith(p)
StartsWith(s, p) == Len(s) >= Len(p) /\ SubSeq(s, 1, Len(p)) = p

\* Index of the first character of s at or after i that is not in chars
RECURSIVE FirstKept(_, _, _)
FirstKept(s, chars, i) ==
    IF i > Len(s) THEN i
    ELSE IF s[i] \in chars THEN FirstKept(s, chars, i + 1)
    ELSE i

\* Index of the last character of s at or before i that is not in chars
RECURSIVE LastKept(_, _, _)
LastKept(s, chars, i) ==
    IF i < 1 THEN i
    ELSE IF s[i] \in chars THEN LastKept(s, chars, i - 1)
    ELSE i

\* s.strip(chars): drop the leading and trailing characters that are in chars
StripChars(s, chars) ==
    SubSeq(s, FirstKept(s, chars, 1), LastKept(s, chars, Len(s)))

\* s.strip()
Strip(s) == StripChars(s, Whitespace)

\* The pieces of s from position start on, scanning from position i
RECURSIVE SplitFrom(_, _, _, _)
SplitFrom(s, sep, start, i) ==
    IF i > Len(s) THEN <<SubSeq(s, start, Len(s))>>
    ELSE IF s[i] = sep
    THEN <<SubSeq(s, start, i - 1)>> \o SplitFrom(s, sep, i + 1, i + 1)
    ELSE SplitFrom(s, sep, start, i + 1)

\* s.split(sep) for a one-character separator: the pieces between all separators
Split(s, sep) == SplitFrom(s, sep, 1, 1)

\* s.split('.')[-1]
LastSegment(s) == LET parts == Split(s, ".") IN parts[Len(parts)]

\* line.split("=")[1]; only evaluated on lines that start with "Name=" or "Icon="
ValueOf(line) == Split(line, "=")[2]

(***************************************************************************)
(* State.                                                                  *)
(***************************************************************************)
VARIABLES
    fs,          \* /usr/share/applications: stem of each existing descriptor -> its lines
    clients,     \* what `hyprctl clients -j` reports: sequence of window objects
    activeworkspace, \* the id `hyprctl activeworkspace -j` reports
    fuzzy,       \* Plugin.fuzzy
    lastSet,     \* history: argument of the most recent setFuzzyMatching call
    call,        \* history: the most recent call of the host and its inputs
    status,      \* outcome of the most recent call: "idle", "returned", "raised"
    matcher,     \* the Matcher built by the most recent handleGlobalQuery
    listed,      \* what Window.list_windows() returned in that query
    rank_items,  \* what handleGlobalQuery returned
    spawned,     \* detached processes the most recent call started, in order
    win_data,    \* the window object a Window is being constructed from
    win          \* the constructed Window

vars == <<fs, clients, activeworkspace, fuzzy, lastSet, call, status, matcher, listed,
          rank_items, spawned, win_data, win>>

NoWindow == [constructed |-> FALSE]
NoMatcher == [built |-> FALSE]

(***************************************************************************)
(* Window.parseDesktopFile and Window.__init__.                            *)
(***************************************************************************)
\* Path(...).exists()
Exists(files, stem) == stem \in DOMAIN files

\* The descriptor consulted for a class: the exact stem, else the last
\* dot-separated segment.
DesktopFile(files, classs) ==
    IF Exists(files, classs) THEN classs ELSE LastSegment(classs)

\* One iteration of the readline loop over [name, icon, current_section].
ParseLine(st, rawline) ==
    LET line == Strip(rawline)
    IN IF StartsWith(line, <<"[">>)
       THEN [st EXCEPT !.current_section = StripChars(line, {"]", "["})]
       ELSE IF st.icon = << >> /\ StartsWith(line, S_IconPrefix)
               /\ st.current_section = S_DesktopEntry
       THEN [st EXCEPT !.icon = ValueOf(line)]
       ELSE IF st.name = << >> /\ StartsWith(line, S_NamePrefix)
               /\ st.current_section = S_DesktopEntry
       THEN [st EXCEPT !.name = ValueOf(line)]
       ELSE st

RECURSIVE ParseLines(_, _)
ParseLines(st, lines) ==
    IF lines = << >> THEN st
    ELSE ParseLines(ParseLine(st, Head(lines)), Tail(lines))

\* parseDesktopFile: the [name, icon] it leaves on the Window
parseDesktopFile(files, classs) ==
    LET stem == DesktopFile(files, classs)
        start == [name |-> << >>, icon |-> classs, current_section |-> << >>]
    IN IF Exists(files, stem) THEN ParseLines(start, files[stem]) ELSE start

\* The default taken from the last dot-separated segment instead of the class.
DefaultName_lastSegment(name, classs) ==
    IF name = << >> THEN LastSegment(classs) ELSE name

\* self.name = self.name or self.classs
DefaultName(name, classs) == IF name = << >> THEN classs ELSE name

\* Window(**win_data)
Window(files, data) ==
    LET parsed == parseDesktopFile(files, data.class)
    IN [address        |-> data.address,
        title          |-> data.title,
        classs         |-> data.class,
        initialTitle   |-> data.initialTitle,
        initialClass   |-> data.initialClass,
        focusHistoryID |-> data.focusHistoryID,
        name           |-> DefaultName(parsed.name, data.class),
        icon           |-> parsed.icon]

(***************************************************************************)
(* Descriptor files and classes the enrichment is exercised on.            *)
(***************************************************************************)
LineSet == {L_DesktopEntry, L_Other, L_NameMyApp, L_IconMyIcon, L_NameIgnored,
            L_NameEmpty}

Files == UNION {[1..n -> LineSet] : n \in 0..MaxLines}

EnrichClasses == {S_empty, S_myappWeird}

\* The two stems parseDesktopFile tries for a class.
Stems(classs) == {classs, LastSegment(classs)}

NoFiles == [s \in {} |-> << >>]

\* At most one descriptor is installed.
FileSystems(classs) ==
    {NoFiles} \cup {[s \in {stem} |-> f] : stem \in Stems(classs), f \in Files}

RawWindow(addr, cls, title, iclass, ititle, rank) ==
    [address |-> addr, class |-> cls, title |-> title, initialClass |-> iclass,
     initialTitle |-> ititle, focusHistoryID |-> rank]

NoCall == [op |-> "none"]

InitEnrich ==
    /\ win_data \in {RawWindow("0x1", c, S_Docs, c, S_Start, 0) : c \in EnrichClasses}
    /\ fs \in FileSystems(win_data.class)
    /\ win = NoWindow
    /\ clients = << >>
    /\ activeworkspace = 1
    /\ fuzzy = FALSE
    /\ lastSet = FALSE
    /\ call = NoCall
    /\ status = "idle"
    /\ matcher = NoMatcher
    /\ listed = << >>
    /\ rank_items = << >>
    /\ spawned = << >>

\* win = Window(**win_data)
Construct ==
    /\ win = NoWindow
    /\ win' = Window(fs, win_data)
    /\ UNCHANGED <<fs, clients, activeworkspace, fuzzy, lastSet, call, status, matcher, listed,
                   rank_items, spawned, win_data>>

NextEnrich == Construct

SpecEnrich == InitEnrich /\ [][NextEnrich]_vars

(***************************************************************************)
(* albert.Matcher, configured by MatchConfig(fuzzy): case-insensitive      *)
(* containment, or case-insensitive ordered subsequence when fuzzy.        *)
(***************************************************************************)
UpperCase == <<"A", "B", "C", "D", "E", "F", "G", "H", "I", "J", "K", "L", "M",
               "N", "O", "P", "Q", "R", "S", "T", "U", "V", "W", "X", "Y", "Z">>
LowerCase == <<"a", "b", "c", "d", "e", "f", "g", "h", "i", "j", "k", "l", "m",
               "n", "o", "p", "q", "r", "s", "t", "u", "v", "w", "x", "y", "z">>

FoldTable ==
    [c \in {UpperCase[i] : i \in 1..Len(UpperCase)} |->
        LowerCase[CHOOSE i \in 1..Len(UpperCase) : UpperCase[i] = c]]

Lower(c) == IF c \in DOMAIN FoldTable THEN FoldTable[c] ELSE c

Fold(s) == [i \in 1..Len(s) |-> Lower(s[i])]

Contains(text, q) ==
    \E i \in 0..(Len(text) - Len(q)) : SubSeq(text, i + 1, i + Len(q)) = q

RECURSIVE IsSubsequence(_, _)
IsSubsequence(text, q) ==
    IF q = << >> THEN TRUE
    ELSE IF text = << >> THEN FALSE
    ELSE IF Head(text) = Head(q) THEN IsSubsequence(Tail(text), Tail(q))
    ELSE IsSubsequence(Tail(text), q)

\* The configuration that ignores the plugin's flag.
MatchConfig_default(fz) == [fuzzy |-> FALSE]

\* MatchConfig(fuzzy=self.fuzzy)
MatchConfig(fz) == [fuzzy |-> fz]

\* Matcher(query.string, config)
Matcher(string, config) == [built |-> TRUE, string |-> string, fuzzy |-> config.fuzzy]

\* m.match(text), as a boolean
Match(m, text) ==
    IF m.fuzzy THEN IsSubsequence(Fold(text), Fold(m.string))
    ELSE Contains(Fold(text), Fold(m.string))

(***************************************************************************)
(* Window.list_windows and Plugin.handleGlobalQuery.                       *)
(***************************************************************************)
\* The launcher recognised by its title instead of its class.
IsLauncher_byTitle(w) == w.title = S_albert

\* win.classs == "albert"
IsLauncher(w) == w.classs = S_albert

\* Window.list_windows() on the parsed output of `hyprctl clients -j`
list_windows(files, data) ==
    LET built == [i \in 1..Len(data) |-> Window(files, data[i])]
    IN SelectSeq(built, LAMBDA w : ~IsLauncher(w))

\* The filter with the initialTitle field left out.
Matches_noInitialTitle(m, w) ==
    \/ Match(m, w.classs)
    \/ Match(m, w.name)
    \/ Match(m, w.title)
    \/ Match(m, w.initialClass)

\* The condition of the list comprehension
Matches(m, w) ==
    \/ Match(m, w.classs)
    \/ Match(m, w.name)
    \/ Match(m, w.title)
    \/ Match(m, w.initialClass)
    \/ Match(m, w.initialTitle)

\* list.sort(key, reverse=True) is stable: w goes behind every element whose
\* key is greater than or equal to its own.
RECURSIVE InsertDescending(_, _)
InsertDescending(sorted, w) ==
    IF sorted = << >> THEN <<w>>
    ELSE IF Head(sorted).focusHistoryID >= w.focusHistoryID
    THEN <<Head(sorted)>> \o InsertDescending(Tail(sorted), w)
    ELSE <<w>> \o sorted

RECURSIVE SortDescending(_)
SortDescending(ws) ==
    IF ws = << >> THEN << >>
    ELSE InsertDescending(SortDescending(SubSeq(ws, 1, Len(ws) - 1)), ws[Len(ws)])

Reverse(ws) == [i \in 1..Len(ws) |-> ws[Len(ws) + 1 - i]]

\* An ascending sort followed by a reversal: descending, equal keys reversed.
SortByFocusHistory_reversed(ws) ==
    LET flipped == [i \in 1..Len(ws) |->
                       [ws[i] EXCEPT !.focusHistoryID = 0 - ws[i].focusHistoryID]]
        ascending == SortDescending(flipped)
    IN Reverse([i \in 1..Len(ws) |->
                   [ascending[i] EXCEPT !.focusHistoryID = 0 - ascending[i].focusHistoryID]])

\* windows.sort(key=lambda x: x.focusHistoryID, reverse=True)
SortByFocusHistory(ws) == SortDescending(ws)

S_WindowPrefix == <<"W", "i", "n", "d", "o", "w", ":", " ">>

\* _make_item: the StandardItem, with what its three actions are bound to
make_item(workspace_id, window) ==
    [id           |-> window.address,
     text         |-> S_WindowPrefix \o window.name,
     subtext      |-> window.title,
     icon         |-> window.icon,
     window       |-> window,
     workspace_id |-> workspace_id]

\* RankItem(item, 1)
RankItem(item, score) == [item |-> item, score |-> score]

\* The body of handleGlobalQuery once both hyprctl calls have answered
QueryResult(all, workspace_id, m) ==
    LET windows == SelectSeq(all, LAMBDA w : Matches(m, w))
        sorted == SortByFocusHistory(windows)
    IN [i \in 1..Len(sorted) |-> RankItem(make_item(workspace_id, sorted[i]), 1)]

(***************************************************************************)
(* The session: windows the compositor reports, and installed descriptors. *)
(***************************************************************************)
Templates ==
    {[address |-> "0x1", class |-> S_albert, title |-> S_Albert,
      initialClass |-> S_albert, initialTitle |-> S_Albert],
     [address |-> "0x2", class |-> S_Firefox, title |-> S_Docs,
      initialClass |-> S_Nav, initialTitle |-> S_Start],
     [address |-> "0x3", class |-> S_foot, title |-> S_fire,
      initialClass |-> S_foot, initialTitle |-> S_foot],
     [address |-> "0x4", class |-> S_kitty, title |-> S_sh,
      initialClass |-> S_Firefox, initialTitle |-> S_sh],
     [address |-> "0x5", class |-> S_kitty, title |-> S_sh,
      initialClass |-> S_kitty, initialTitle |-> S_Fire],
     [address |-> "0x6", class |-> S_oNav, title |-> S_Docs,
      initialClass |-> S_oNav, initialTitle |-> S_Docs]}

WindowObjects ==
    {RawWindow(t.address, t.class, t.title, t.initialClass, t.initialTitle, r) :
        t \in Templates, r \in 0..MaxRank}

\* Addresses are unique within a snapshot.
Snapshots ==
    UNION {{s \in [1..n -> WindowObjects] :
               \A i, j \in 1..n : s[i].address = s[j].address => i = j} :
           n \in 0..MaxWindows}

\* /usr/share/applications holds Nav.desktop
Applications ==
    [s \in {S_Nav} |-> <<L_DesktopEntry, L_NameFire, L_IconNav>>]

Queries == {S_empty, S_fire, S_FRX}

WorkspaceIds == {1, 2}

\* How an invocation of hyprctl at query time can end: output that parses, a
\* non-zero exit or missing binary, or output json.loads rejects.
Failures == {"failed", "malformed"}

InitPlugin ==
    /\ fs = Applications
    /\ fuzzy = FALSE
    /\ lastSet = FALSE
    /\ call = NoCall
    /\ status = "idle"
    /\ matcher = NoMatcher
    /\ listed = << >>
    /\ rank_items = << >>
    /\ spawned = << >>
    /\ win_data = RawWindow("0x0", S_empty, S_empty, S_empty, S_empty, 0)
    /\ win = NoWindow

\* Plugin.setFuzzyMatching(enabled)
SetFuzzyMatching(enabled) ==
    /\ fuzzy' = enabled
    /\ lastSet' = enabled
    /\ call' = [op |-> "setFuzzyMatching", enabled |-> enabled]
    /\ status' = "returned"
    /\ spawned' = << >>
    /\ UNCHANGED <<fs, clients, activeworkspace, matcher, listed, rank_items, win_data, win>>

\* Plugin.handleGlobalQuery(query): both hyprctl calls answer
HandleGlobalQuery(string) ==
    LET m == Matcher(string, MatchConfig(fuzzy))
    IN /\ listed' = list_windows(fs, clients)
       /\ matcher' = m
       /\ rank_items' = QueryResult(listed', activeworkspace, m)
       /\ call' = [op |-> "handleGlobalQuery", string |-> string,
                   clients |-> "ok", activeworkspace |-> "ok"]
       /\ status' = "returned"
       /\ spawned' = << >>
       /\ UNCHANGED <<fs, clients, activeworkspace, fuzzy, lastSet, win_data, win>>

\* Plugin.handleGlobalQuery(query): check_output or json.loads raises in
\* list_windows (line 136) or in current_workspace_id (line 129), and nothing
\* catches it
HandleGlobalQueryRaises(string) ==
    \E where \in {"clients", "activeworkspace"}, how \in Failures :
        /\ listed' = IF where = "clients" THEN << >> ELSE list_windows(fs, clients)
        /\ matcher' = NoMatcher
        /\ rank_items' = << >>
        /\ call' = [op |-> "handleGlobalQuery", string |-> string,
                    clients |-> IF where = "clients" THEN how ELSE "ok",
                    activeworkspace |-> IF where = "clients" THEN "notrun" ELSE how]
        /\ status' = "raised"
        /\ spawned' = << >>
        /\ UNCHANGED <<fs, clients, activeworkspace, fuzzy, lastSet, win_data, win>>

\* runDetachedProcess(argv): the process is started or not, and the plugin
\* does not look at which
Detached(argv, started) == [argv |-> argv, started |-> started]

FocusArgv(window) ==
    <<"hyprctl", "dispatch", "focuswindow", "address:" \o window.address>>

MoveArgv(workspace_id) ==
    <<"hyprctl", "dispatch", "movetoworkspace", ToString(workspace_id)>>

CloseArgv(window) ==
    <<"hyprctl", "dispatch", "closewindow", "address:" \o window.address>>

\* The two invocations with the move issued before the focus.
move_window_here_moveFirst(window, workspace_id, started) ==
    <<Detached(MoveArgv(workspace_id), started[1]),
      Detached(FocusArgv(window), started[2])>>

\* _move_window_here: the two invocations, in the order they are issued
move_window_here(window, workspace_id, started) ==
    <<Detached(FocusArgv(window), started[1]),
      Detached(MoveArgv(workspace_id), started[2])>>

Items == {rank_items[i].item : i \in 1..Len(rank_items)}

\* The "Switch" action of an item: Plugin._focus_window
FocusWindow(item) ==
    \E started \in BOOLEAN :
        /\ spawned' = <<Detached(FocusArgv(item.window), started)>>
        /\ call' = [op |-> "Switch", id |-> item.id]
        /\ status' = "returned"
        /\ UNCHANGED <<fs, clients, activeworkspace, fuzzy, lastSet, matcher, listed, rank_items,
                       win_data, win>>

\* The "Move Here" action of an item: Plugin._move_window_here
MoveWindowHere(item) ==
    \E started \in [1..2 -> BOOLEAN] :
        /\ spawned' = move_window_here(item.window, item.workspace_id, started)
        /\ call' = [op |-> "Move Here", id |-> item.id,
                    workspace_id |-> item.workspace_id]
        /\ status' = "returned"
        /\ UNCHANGED <<fs, clients, activeworkspace, fuzzy, lastSet, matcher, listed, rank_items,
                       win_data, win>>

\* The "Close" action of an item: Plugin._close_window
CloseWindow(item) ==
    \E started \in BOOLEAN :
        /\ spawned' = <<Detached(CloseArgv(item.window), started)>>
        /\ call' = [op |-> "Close", id |-> item.id]
        /\ status' = "returned"
        /\ UNCHANGED <<fs, clients, activeworkspace, fuzzy, lastSet, matcher, listed, rank_items,
                       win_data, win>>

\* The session of the full plugin: the first windows of the compositor's list.
Session ==
    <<RawWindow("0x1", S_albert, S_Albert, S_albert, S_Albert, 0),
      RawWindow("0x2", S_Firefox, S_Docs, S_Nav, S_Start, 1),
      RawWindow("0x6", S_oNav, S_Docs, S_oNav, S_Docs, 0),
      RawWindow("0x3", S_foot, S_fire, S_foot, S_foot, 1)>>

Init ==
    /\ clients \in {SubSeq(Session, 1, n) : n \in 0..(MaxWindows + 1)}
    /\ activeworkspace \in WorkspaceIds
    /\ InitPlugin

Next ==
    \/ \E enabled \in BOOLEAN : SetFuzzyMatching(enabled)
    \/ \E string \in Queries : HandleGlobalQuery(string)
    \/ \E string \in Queries : HandleGlobalQueryRaises(string)
    \/ \E item \in Items : FocusWindow(item)
    \/ \E item \in Items : MoveWindowHere(item)
    \/ \E item \in Items : CloseWindow(item)

Spec == Init /\ [][Next]_vars

\* The query pipeline on every snapshot within the bounds.
InitMatch ==
    /\ clients \in Snapshots
    /\ activeworkspace = 1
    /\ InitPlugin

NextMatch ==
    \/ \E enabled \in BOOLEAN : SetFuzzyMatching(enabled)
    \/ \E string \in Queries : HandleGlobalQuery(string)

SpecMatch == InitMatch /\ [][NextMatch]_vars

(***************************************************************************)
(* What a descriptor file says, read off its text: the lines of a key that  *)
(* stand in the Desktop Entry section, and the value of the first of them.  *)
(***************************************************************************)
Stripped(lines) == [i \in 1..Len(lines) |-> Strip(lines[i])]

\* Line i stands under the header [Desktop Entry].
InDesktopEntry(text, i) ==
    \E h \in 1..(i - 1) :
        /\ text[h] = <<"[">> \o S_DesktopEntry \o <<"]">>
        /\ \A k \in (h + 1)..(i - 1) : ~StartsWith(text[k], <<"[">>)

KeyLines(lines, prefix) ==
    LET text == Stripped(lines)
    IN {i \in 1..Len(lines) : StartsWith(text[i], prefix) /\ InDesktopEntry(text, i)}

FirstValue(lines, prefix) ==
    LET keys == KeyLines(lines, prefix)
        first == CHOOSE i \in keys : \A j \in keys : i <= j
        line == Strip(lines[first])
    IN SubSeq(line, Len(prefix) + 1, Len(line))

Constructed == win # NoWindow

\* The descriptor found for the window's class, as a set of at most one file.
Found ==
    IF win_data.class \in DOMAIN fs THEN {fs[win_data.class]}
    ELSE IF LastSegment(win_data.class) \in DOMAIN fs
    THEN {fs[LastSegment(win_data.class)]}
    ELSE {}

NameFound == \E f \in Found : KeyLines(f, S_NamePrefix) # {}
IconFound == \E f \in Found : KeyLines(f, S_IconPrefix) # {}

\* Every Name= and Icon= line of the file carries a value.
HasValues(lines) ==
    \A i \in 1..Len(lines) :
        Strip(lines[i]) \notin {S_NamePrefix, S_IconPrefix}

\* C4: when a descriptor file is found, displayName is the value of the first
\* Name= line and iconRef the value of the first Icon= line of the Desktop
\* Entry section (stated for files whose Name= and Icon= lines carry a value,
\* such as the example file: Name=My App and Icon=my-icon yield
\* displayName "My App" and iconRef "my-icon").
C4_FirstNameAndIcon ==
    Constructed =>
        \A f \in Found :
            HasValues(f) =>
                /\ KeyLines(f, S_NamePrefix) # {}
                       => win.name = FirstValue(f, S_NamePrefix)
                /\ KeyLines(f, S_IconPrefix) # {}
                       => win.icon = FirstValue(f, S_IconPrefix)

\* C6: displayName and iconRef are both non-empty once the Window is
\* constructed, whatever the class and the descriptor file.
C6_NeverEmpty ==
    Constructed => win.name # << >> /\ win.icon # << >>

\* C8: displayName equals the class whenever no Name= is found, and iconRef
\* equals the class whenever no Icon= is found, with or without a descriptor.
C8_DefaultsPerKey ==
    Constructed =>
        /\ ~NameFound => win.name = win_data.class
        /\ ~IconFound => win.icon = win_data.class

\* A descriptor exists under the last segment of myapp.Weird and holds a Name=
\* line, but none in its Desktop Entry section: the name is the class.
C8_Witness ==
    /\ Constructed
    /\ win_data.class = S_myappWeird
    /\ \E f \in Found : /\ \E i \in 1..Len(f) : StartsWith(Strip(f[i]), S_NamePrefix)
                        /\ KeyLines(f, S_NamePrefix) = {}
    /\ S_myappWeird \notin DOMAIN fs
    /\ win.name = S_myappWeird
    /\ win.icon = S_myappWeird

\* No descriptor at all for myapp.Weird.
C8_NoFileExample ==
    (Constructed /\ win_data.class = S_myappWeird /\ Found = {})
        => win.name = S_myappWeird /\ win.icon = S_myappWeird

(***************************************************************************)
(* Properties of the query pipeline and of the actions.                    *)
(***************************************************************************)
Returned == call.op = "handleGlobalQuery" /\ status = "returned"

ResultWindows == [i \in 1..Len(rank_items) |-> rank_items[i].item.window]

ResultIds == {rank_items[i].item.id : i \in 1..Len(rank_items)}

SnapshotIndex(address) == CHOOSE k \in 1..Len(clients) : clients[k].address = address

\* Addresses of the snapshot's windows, the launcher's own left out, that
\* have one of the five fields accepted by the predicate m.
Accepted(m) ==
    {clients[k].address : k \in
        {k \in 1..Len(clients) :
            /\ clients[k].class # S_albert
            /\ \E text \in {clients[k].class,
                            Window(fs, clients[k]).name,
                            clients[k].title,
                            clients[k].initialClass,
                            clients[k].initialTitle} : Match(m, text)}}

\* C1: in the returned sequence a window with a lower focusHistoryRank
\* precedes every window with a higher one (most recently focused first).
C1_MostRecentFirst ==
    Returned =>
        \A i, j \in 1..Len(rank_items) :
            ResultWindows[i].focusHistoryID < ResultWindows[j].focusHistoryID
                => i < j

\* C2: Move Here issues exactly two detached invocations, the focus of the
\* window's address first and the move to the workspace second, whether or
\* not the focus invocation started.
C2_FocusThenMove ==
    call.op = "Move Here" =>
        /\ Len(spawned) = 2
        /\ spawned[1].argv =
               <<"hyprctl", "dispatch", "focuswindow", "address:" \o call.id>>
        /\ spawned[2].argv =
               <<"hyprctl", "dispatch", "movetoworkspace",
                 IF call.workspace_id = 1 THEN "1" ELSE "2">>

\* The focus invocation did not start and the move was issued all the same.
C2_Witness ==
    /\ call.op = "Move Here"
    /\ Len(spawned) = 2
    /\ ~spawned[1].started
    /\ spawned[1].argv[3] = "focuswindow"
    /\ spawned[2].argv[3] = "movetoworkspace"

\* C3: no window whose class is "albert" is in the output of list_windows or
\* of handleGlobalQuery, for any query and either fuzzy mode.
C3_LauncherNeverListed ==
    /\ \A i \in 1..Len(listed) : listed[i].classs # S_albert
    /\ \A i \in 1..Len(rank_items) : ResultWindows[i].classs # S_albert

\* The launcher's window is in the snapshot, the empty query accepts every
\* window, and the query returned the other window.
C3_Witness ==
    /\ Returned
    /\ matcher.string = << >>
    /\ \E k \in 1..Len(clients) : clients[k].class = S_albert
    /\ Len(clients) = 2
    /\ Len(rank_items) = 1

\* C5: when a query-time invocation of hyprctl fails or its output does not
\* parse, list_windows and handleGlobalQuery return empty sequences and no
\* exception reaches the host.
C5_FailureGivesEmptyResult ==
    (/\ call.op = "handleGlobalQuery"
     /\ (call.clients \in Failures \/ call.activeworkspace \in Failures))
        => status = "returned" /\ listed = << >> /\ rank_items = << >>

\* C7: the windows returned are exactly the snapshot's windows, other than the
\* launcher's, with at least one of the five fields accepted by the query's
\* one predicate; none is returned twice.
C7_ExactlyTheMatches ==
    Returned =>
        /\ ResultIds = Accepted(matcher)
        /\ Cardinality(ResultIds) = Len(rank_items)

\* A fuzzy query that keeps one of two listed windows and drops the other.
C7_Witness ==
    /\ Returned
    /\ matcher.fuzzy
    /\ matcher.string = S_FRX
    /\ Len(listed) = 2
    /\ Len(rank_items) = 1

\* C9: two returned windows with equal focusHistoryRank keep the relative
\* order they have in the snapshot.
C9_StableSort ==
    Returned =>
        \A i, j \in 1..Len(rank_items) :
            (/\ i < j
             /\ ResultWindows[i].focusHistoryID = ResultWindows[j].focusHistoryID)
                => SnapshotIndex(ResultWindows[i].address)
                       < SnapshotIndex(ResultWindows[j].address)

\* Two windows with the same rank were returned.
C9_Witness ==
    /\ Returned
    /\ Len(rank_items) = 2
    /\ ResultWindows[1].focusHistoryID = ResultWindows[2].focusHistoryID

\* C10: the flag is the argument of the most recent setFuzzyMatching call
\* (false before the first), whatever queries and actions ran since, and a
\* query matches with that value: its result is what the snapshot, the
\* string and that value determine.
C10_FuzzyOfLastSet ==
    /\ fuzzy = lastSet
    /\ Returned =>
           /\ matcher.fuzzy = lastSet
           /\ ResultIds = Accepted([string |-> call.string, fuzzy |-> lastSet])

\* After setFuzzyMatching(True) a query returned a window that only the
\* fuzzy predicate accepts.
C10_Witness ==
    /\ Returned
    /\ lastSet
    /\ call.string = S_FRX
    /\ Len(rank_items) >= 1
    /\ Accepted([string |-> call.string, fuzzy |-> FALSE]) = {}

====
